---- MODULE Spec2Model ----
(***************************************************************************)
(* Query-parameter translator of core-backend/pkg/query: the entity        *)
(* configuration registry, the request parser, the clause builder and the  *)
(* pagination helpers.                                                      *)
(*                                                                         *)
(* A Go string is a sequence of tokens (a word, a character or ",");       *)
(* "" is <<>>.  A *gorm.DB is the sequence of clause-builder calls made on *)
(* it, in call order.                                                       *)
(***************************************************************************)
EXTENDS Integers, Sequences, FiniteSets, TLC

VARIABLES configRegistry, q, c, opts, dbActive, dbArchived, dbCount, ret

vars == <<configRegistry, q, c, opts, dbActive, dbArchived, dbCount, ret>>

-----------------------------------------------------------------------------
(* Bounds *)

MaxSortBy == 2
MaxSortOrder == 2
MaxSearchColumns == 2
\* width of the machine int, scaled down from Go's 64 bits
IntBits == 12

-----------------------------------------------------------------------------
(* Go values *)

Str(w) == <<w>>
EmptyStr == <<>>
Comma == ","

Range(s) == {s[i] : i \in DOMAIN s}

RECURSIVE Pow2(_)
Pow2(n) == IF n = 0 THEN 1 ELSE 2 * Pow2(n - 1)

MaxInt == Pow2(IntBits - 1) - 1
MinInt == -Pow2(IntBits - 1)

\* two's-complement wrap-around of the int type
WrapInt(x) == ((x - MinInt) % Pow2(IntBits)) + MinInt

Abs(x) == IF x < 0 THEN -x ELSE x

\* Go's "/" truncates toward zero, "%" takes the sign of the dividend
GoDiv(a, b) == LET m == Abs(a) \div Abs(b) IN IF (a < 0) # (b < 0) THEN -m ELSE m
GoMod(a, b) == a - b * GoDiv(a, b)

LowerToken(t) ==
    CASE t = "DESC" -> "desc"
      [] t = "Desc" -> "desc"
      [] t = "ASC" -> "asc"
      [] t = "J" -> "j"
      [] t = "O" -> "o"
      [] OTHER -> t

ToLower(s) == [i \in DOMAIN s |-> LowerToken(s[i])]

\* strings.Split(s, ",")
RECURSIVE Split(_)
Split(s) ==
    IF \A i \in DOMAIN s : s[i] # Comma
    THEN <<s>>
    ELSE LET k == CHOOSE i \in DOMAIN s :
                     s[i] = Comma /\ \A j \in 1..(i - 1) : s[j] # Comma
         IN <<SubSeq(s, 1, k - 1)>> \o Split(SubSeq(s, k + 1, Len(s)))

Digits == {"0", "1", "2", "3", "4", "5", "6", "7", "8", "9"}

DigitVal(d) ==
    CASE d = "0" -> 0 [] d = "1" -> 1 [] d = "2" -> 2 [] d = "3" -> 3
      [] d = "4" -> 4 [] d = "5" -> 5 [] d = "6" -> 6 [] d = "7" -> 7
      [] d = "8" -> 8 [] d = "9" -> 9

RECURSIVE DecimalValue(_)
DecimalValue(s) ==
    IF s = <<>> THEN 0
    ELSE 10 * DecimalValue(SubSeq(s, 1, Len(s) - 1)) + DigitVal(s[Len(s)])

\* strconv.Atoi: an optional sign, then one or more digits, within int range
Atoi(s) ==
    LET signed == s # <<>> /\ s[1] \in {"+", "-"}
        digits == IF signed THEN Tail(s) ELSE s
        wellFormed == digits # <<>> /\ \A i \in DOMAIN digits : digits[i] \in Digits
        n == IF signed /\ s[1] = "-" THEN -DecimalValue(digits) ELSE DecimalValue(digits)
    IN IF wellFormed /\ n >= MinInt /\ n <= MaxInt
       THEN [err |-> FALSE, value |-> n]
       ELSE [err |-> TRUE, value |-> 0]

-----------------------------------------------------------------------------
(* query_config.go *)

EntityConfig(searchable, sortable, defaultSort, includes) ==
    [SearchableColumns |-> searchable, SortableColumns |-> sortable,
     DefaultSort |-> defaultSort, DefaultIncludes |-> includes]

NilConfig == [nil |-> TRUE]

GetConfig(entityType) ==
    IF entityType \in DOMAIN configRegistry
    THEN configRegistry[entityType]
    ELSE NilConfig

IsValidSortColumn(entityType, column) ==
    LET config == GetConfig(entityType)
    IN IF config = NilConfig THEN FALSE
       ELSE column \in Range(config.SortableColumns)

IsValidSearchColumn(entityType, column) ==
    LET config == GetConfig(entityType)
    IN IF config = NilConfig THEN FALSE
       ELSE column \in Range(config.SearchableColumns)

-----------------------------------------------------------------------------
(* query options *)

DefaultPage == 1
DefaultPageSize == 20
MaxPageSize == 100

NoFilters == [k \in {} |-> EmptyStr]

\* the zero value QueryOptions{}
ZeroQueryOptions ==
    [Page |-> 0, PageSize |-> 0, SortBy |-> <<>>, SortOrder |-> <<>>,
     Search |-> EmptyStr, SearchColumns |-> <<>>, Filters |-> NoFilters,
     Preload |-> <<>>, IncludeArchived |-> FALSE]

DefaultQueryOptions ==
    [Page |-> DefaultPage, PageSize |-> DefaultPageSize,
     SortBy |-> <<Str("created_at")>>, SortOrder |-> <<Str("desc")>>,
     Search |-> EmptyStr, SearchColumns |-> <<>>, Filters |-> NoFilters,
     Preload |-> <<>>, IncludeArchived |-> FALSE]

-----------------------------------------------------------------------------
(* query_middleware.go: request parsing *)

\* a request is its URL query: parameter name -> list of values
NoRequest == [nil |-> TRUE]

\* gin's c.Query(key): the first value of the parameter, "" when absent
Query(req, key) ==
    IF key \in DOMAIN req /\ Len(req[key]) > 0 THEN req[key][1] ELSE EmptyStr

ReservedParams ==
    {Str("page"), Str("pageSize"), Str("sortBy"), Str("sortOrder"), Str("search"),
     Str("searchColumns"), Str("preload"), Str("includeArchived")}

parseFilters(req, o) ==
    LET keys == {k \in DOMAIN req : k \notin ReservedParams /\ Len(req[k]) > 0}
        filters == [k \in keys |-> req[k][1]]
    IN IF keys # {} THEN [o EXCEPT !.Filters = filters] ELSE o

ParseFromRequest(req) ==
    LET o0 == DefaultQueryOptions
        pageStr == Query(req, Str("page"))
        page == Atoi(pageStr)
        o1 == IF pageStr # EmptyStr /\ ~page.err /\ page.value > 0
              THEN [o0 EXCEPT !.Page = page.value] ELSE o0
        pageSizeStr == Query(req, Str("pageSize"))
        pageSize == Atoi(pageSizeStr)
        o2 == IF pageSizeStr # EmptyStr /\ ~pageSize.err /\ pageSize.value > 0
              THEN [o1 EXCEPT !.PageSize = pageSize.value] ELSE o1
        sortBy == Query(req, Str("sortBy"))
        o3 == IF sortBy # EmptyStr THEN [o2 EXCEPT !.SortBy = Split(sortBy)] ELSE o2
        sortOrder == Query(req, Str("sortOrder"))
        o4 == IF sortOrder # EmptyStr THEN [o3 EXCEPT !.SortOrder = Split(sortOrder)] ELSE o3
        search == Query(req, Str("search"))
        o5 == IF search # EmptyStr THEN [o4 EXCEPT !.Search = search] ELSE o4
        searchColumns == Query(req, Str("searchColumns"))
        o6 == IF searchColumns # EmptyStr
              THEN [o5 EXCEPT !.SearchColumns = Split(searchColumns)] ELSE o5
        preload == Query(req, Str("preload"))
        o7 == IF preload # EmptyStr THEN [o6 EXCEPT !.Preload = Split(preload)] ELSE o6
        includeArchived == Query(req, Str("includeArchived"))
        o8 == IF includeArchived # EmptyStr
              THEN [o7 EXCEPT !.IncludeArchived =
                        (includeArchived = Str("true") \/ includeArchived = Str("1"))]
              ELSE o7
    IN parseFilters(req, o8)

-----------------------------------------------------------------------------
(* query_middleware.go: pagination helpers *)

Paginate(page, pageSize) ==
    LET p == IF page < 1 THEN 1 ELSE page
        s1 == IF pageSize < 1 THEN DefaultPageSize ELSE pageSize
        s2 == IF s1 > MaxPageSize THEN MaxPageSize ELSE s1
    IN <<p, s2>>

GetPageFromRequest(req) ==
    LET page == Atoi(Query(req, Str("page")))
    IN IF page.err \/ page.value < 1 THEN DefaultPage ELSE page.value

GetPageSizeFromRequest(req) ==
    LET pageSize == Atoi(Query(req, Str("pageSize")))
    IN IF pageSize.err \/ pageSize.value < 1 THEN DefaultPageSize
       ELSE IF pageSize.value > MaxPageSize THEN MaxPageSize
       ELSE pageSize.value

\* the integer division by pageSize panics when pageSize is 0
Panic == [panic |-> TRUE]

TotalPages(total, pageSize) ==
    LET totalPages == GoDiv(total, pageSize)
    IN IF GoMod(total, pageSize) > 0 THEN WrapInt(totalPages + 1) ELSE totalPages

PaginatedResponse(total, page, pageSize) ==
    IF pageSize = 0 THEN Panic
    ELSE [panic |-> FALSE, total |-> total, page |-> page, page_size |-> pageSize,
          total_pages |-> TotalPages(total, pageSize)]

RespondWithPagination(total, page, pageSize) ==
    IF pageSize = 0 THEN Panic
    ELSE [panic |-> FALSE, total |-> total, page |-> page, page_size |-> pageSize,
          total_pages |-> TotalPages(total, pageSize)]

-----------------------------------------------------------------------------
(* the gorm clause-builder calls the package makes *)

NoDB == <<>>

\* db.Session(&gorm.Session{}): a fresh statement
Session == <<[call |-> "Session"]>>

Offset(db, n) == Append(db, [call |-> "Offset", arg |-> n])
Limit(db, n) == Append(db, [call |-> "Limit", arg |-> n])
Order(db, clauses) == Append(db, [call |-> "Order", arg |-> clauses])
Where(db, form, query, args) ==
    Append(db, [call |-> "Where", form |-> form, query |-> query, args |-> args])
Preload(db, relation) == Append(db, [call |-> "Preload", arg |-> relation])
Unscoped(db) == Append(db, [call |-> "Unscoped"])

Calls(db, name) == SelectSeq(db, LAMBDA x : x.call = name)

-----------------------------------------------------------------------------
(* the query builder *)

NoBuilder == [nil |-> TRUE]

NewBuilder(entityType) == [entityType |-> entityType, config |-> GetConfig(entityType)]

applyPagination(db, o) ==
    LET page == IF o.Page < 1 THEN DefaultPage ELSE o.Page
        size1 == IF o.PageSize < 1 THEN DefaultPageSize ELSE o.PageSize
        pageSize == IF size1 > MaxPageSize THEN MaxPageSize ELSE size1
        offset == WrapInt(WrapInt(page - 1) * pageSize)
    IN Limit(Offset(db, offset), pageSize)

\* fmt.Sprintf("%s %s", col, order), kept as the pair it joins
OrderClause(col, order) == [column |-> col, order |-> order]

\* the fallback of a builder that has no DefaultSort to use
FallbackOrder == <<OrderClause(Str("created_at"), Str("desc"))>>

AllAscending(cols) == [i \in DOMAIN cols |-> Str("asc")]

\* the DefaultSort is taken without looking at its length
UsesDefaultSortUnchecked(b) == b.config # NilConfig

\* lines 143-153: does the builder replace an empty SortBy by its DefaultSort?
UsesDefaultSort(b) == b.config # NilConfig /\ Len(b.config.DefaultSort) > 0

\* line 157: the column is skipped
SortColumnSkipped(b, col) ==
    b.entityType # EmptyStr /\ ~IsValidSortColumn(b.entityType, col)

\* line 161
SortDirection(sortOrder, i) ==
    IF i <= Len(sortOrder) /\ ToLower(sortOrder[i]) = Str("desc")
    THEN Str("desc") ELSE Str("asc")

RECURSIVE orderClauses(_, _, _, _)
orderClauses(b, sortBy, sortOrder, i) ==
    IF i > Len(sortBy) THEN <<>>
    ELSE LET rest == orderClauses(b, sortBy, sortOrder, i + 1)
         IN IF SortColumnSkipped(b, sortBy[i]) THEN rest
            ELSE <<OrderClause(sortBy[i], SortDirection(sortOrder, i))>> \o rest

applySorting(b, db, o) ==
    IF Len(o.SortBy) = 0 /\ ~UsesDefaultSort(b)
    THEN Order(db, FallbackOrder)
    ELSE LET sortBy == IF Len(o.SortBy) = 0 THEN b.config.DefaultSort ELSE o.SortBy
             sortOrder == IF Len(o.SortBy) = 0 THEN AllAscending(sortBy) ELSE o.SortOrder
             clauses == orderClauses(b, sortBy, sortOrder, 1)
         IN IF Len(clauses) > 0 THEN Order(db, clauses) ELSE db

applyFilters(db, o) ==
    IF DOMAIN o.Filters # {} THEN Where(db, "map", o.Filters, <<>>) ELSE db

\* line 202: the column is skipped
SearchColumnSkipped(b, col) ==
    b.entityType # EmptyStr /\ ~IsValidSearchColumn(b.entityType, col)

\* fmt.Sprintf("%s ILIKE ?", col)
ILikeCondition(col) == [column |-> col, operator |-> "ILIKE"]

applySearch(b, db, o) ==
    IF o.Search = EmptyStr THEN db
    ELSE LET searchColumns == IF Len(o.SearchColumns) = 0 /\ b.config # NilConfig
                              THEN b.config.SearchableColumns
                              ELSE o.SearchColumns
             kept == SelectSeq(searchColumns, LAMBDA col : ~SearchColumnSkipped(b, col))
             searchTerm == <<"%">> \o o.Search \o <<"%">>
             conditions == [i \in DOMAIN kept |-> ILikeCondition(kept[i])]
             args == [i \in DOMAIN kept |-> searchTerm]
         IN IF Len(searchColumns) = 0 THEN db
            ELSE IF Len(conditions) > 0 THEN Where(db, "or", conditions, args)
            ELSE db

RECURSIVE applyPreloadFrom(_, _, _)
applyPreloadFrom(db, preload, i) ==
    IF i > Len(preload) THEN db
    ELSE applyPreloadFrom(Preload(db, preload[i]), preload, i + 1)

applyPreload(db, o) == applyPreloadFrom(db, o.Preload, 1)

\* the archived branch without Unscoped()
archivePartitionScoped(db, archived) ==
    IF archived
    THEN Where(db, "raw", Str("deleted_at IS NOT NULL"), <<>>)
    ELSE Where(db, "raw", Str("deleted_at IS NULL"), <<>>)

\* lines 113-117
archivePartition(db, archived) ==
    IF archived
    THEN Where(Unscoped(db), "raw", Str("deleted_at IS NOT NULL"), <<>>)
    ELSE Where(db, "raw", Str("deleted_at IS NULL"), <<>>)

applyQuery(b, db, o, archived) ==
    LET db1 == applyPagination(db, o)
        db2 == applySorting(b, db1, o)
        db3 == applyFilters(db2, o)
        db4 == applySearch(b, db3, o)
        db5 == applyPreload(db4, o)
    IN archivePartition(db5, archived)

\* Count: applyQuery on a fresh session, then query.Count(&count)
CountQuery(b, o, archived) ==
    Append(applyQuery(b, Session, o, archived), [call |-> "Count"])

-----------------------------------------------------------------------------
(* rows of the entity's table, and the rows a statement selects *)

Null == Str("NULL")

RowColumns ==
    {Str("deleted_at"), Str("status"), Str("name"), Str("email"), Str("phone"),
     Str("unknownCol")}

Rows ==
    {[col \in RowColumns |->
        CASE col = Str("deleted_at") -> d
          [] col = Str("status") -> st
          [] col = Str("name") -> n
          [] col = Str("email") -> e
          [] OTHER -> Str("x")] :
        d \in {Null, Str("2024-01-01")},
        st \in {Str("active"), Str("inactive")},
        n \in {<<"J", "o">>, Str("x")},
        e \in {<<"j", "o", "e">>, Str("x")}}

\* s LIKE p, "%" matching any run of tokens
RECURSIVE Like(_, _)
Like(s, p) ==
    IF p = <<>> THEN s = <<>>
    ELSE IF Head(p) = "%"
         THEN \E k \in 0..Len(s) : Like(SubSeq(s, k + 1, Len(s)), Tail(p))
         ELSE s # <<>> /\ Head(s) = Head(p) /\ Like(Tail(s), Tail(p))

ILike(s, p) == Like(ToLower(s), ToLower(p))

Satisfies(row, w) ==
    CASE w.form = "map" -> \A k \in DOMAIN w.query : row[k] = w.query[k]
      [] w.form = "or" -> \E i \in DOMAIN w.query : ILike(row[w.query[i].column], w.args[i])
      [] w.form = "raw" ->
            IF w.query = Str("deleted_at IS NULL")
            THEN row[Str("deleted_at")] = Null
            ELSE row[Str("deleted_at")] # Null

\* the rows db.Find returns when OFFSET and LIMIT are left out; a statement
\* that is not Unscoped carries gorm's soft-delete scope
Selects(db, row) ==
    /\ \A i \in DOMAIN db : db[i].call = "Where" => Satisfies(row, db[i])
    /\ (\E i \in DOMAIN db : db[i].call = "Unscoped") \/ row[Str("deleted_at")] = Null

Selected(db) == {row \in Rows : Selects(db, row)}

-----------------------------------------------------------------------------
(* inputs *)

SeqsUpTo(S, n) == UNION {[1..k -> S] : k \in 0..n}

EntityTypes == {Str("user"), EmptyStr}


\* part_001 ExampleRegistration, "user"
UserConfig ==
    EntityConfig(<<Str("name"), Str("email"), Str("phone")>>,
                 <<Str("name"), Str("email"), Str("created_at"), Str("updated_at")>>,
                 <<Str("created_at")>>, <<Str("Role")>>)

\* a configuration without DefaultSort, whitelisting only "email" for search
EmailOnlyConfig ==
    EntityConfig(<<Str("email")>>, <<Str("name")>>, <<>>, <<>>)

\* a configuration whose DefaultSort names a column that is not sortable
UnsortableDefaultConfig ==
    EntityConfig(<<Str("name")>>, <<Str("name")>>, <<Str("name"), Str("phone")>>, <<>>)

Configs == {UserConfig, EmailOnlyConfig, UnsortableDefaultConfig}

\* the RegisterConfig calls the application may make
Registrations ==
    {<<Str("user"), cfg>> : cfg \in Configs} \cup {<<EmptyStr, UserConfig>>}

SortLiterals ==
    {[ZeroQueryOptions EXCEPT !.SortBy = sb, !.SortOrder = so] :
        sb \in SeqsUpTo({Str("name"), Str("unknownCol")}, MaxSortBy),
        so \in SeqsUpTo({Str("DESC")}, MaxSortOrder)}

SearchLiterals ==
    {[ZeroQueryOptions EXCEPT !.Search = s, !.SearchColumns = sc, !.Filters = f] :
        s \in {EmptyStr, <<"j", "o">>},
        sc \in SeqsUpTo({Str("email"), Str("phone")}, MaxSearchColumns),
        f \in {NoFilters, [k \in {Str("status")} |-> Str("active")]}}

PageLiterals ==
    {[ZeroQueryOptions EXCEPT !.Page = p, !.PageSize = ps, !.Preload = pl,
                              !.IncludeArchived = a] :
        p \in {0, 2}, ps \in {0, 50}, pl \in {<<>>, <<Str("Role"), Str("Tenant")>>},
        a \in BOOLEAN}

OptionLiterals == SortLiterals \cup SearchLiterals \cup PageLiterals

Request(page, pageSize, sortBy, sortOrder, search, searchColumns, preload, archived, status) ==
    [k \in ReservedParams \cup (IF status = <<>> THEN {} ELSE {Str("status")}) |->
        CASE k = Str("page") -> <<page>>
          [] k = Str("pageSize") -> <<pageSize>>
          [] k = Str("sortBy") -> <<sortBy>>
          [] k = Str("sortOrder") -> <<sortOrder>>
          [] k = Str("search") -> <<search>>
          [] k = Str("searchColumns") -> <<searchColumns>>
          [] k = Str("preload") -> <<preload>>
          [] k = Str("includeArchived") -> <<archived>>
          [] OTHER -> status]

SortRequests ==
    {Request(EmptyStr, EmptyStr, sb, so, EmptyStr, EmptyStr, EmptyStr, EmptyStr, <<>>) :
        sb \in {EmptyStr, Str("name"), <<"name", Comma, "unknownCol">>, <<"unknownCol", Comma, "name">>},
        so \in {EmptyStr, Str("desc"), Str("Desc"), <<"asc", Comma, "DESC">>}}

SearchRequests ==
    {Request(EmptyStr, EmptyStr, EmptyStr, EmptyStr, s, sc, EmptyStr, EmptyStr, st) :
        s \in {EmptyStr, <<"J", "o">>},
        sc \in {EmptyStr, <<"email", Comma, "phone">>},
        st \in {<<>>, <<Str("active"), Str("inactive")>>}}

PageRequests ==
    {Request(p, ps, EmptyStr, EmptyStr, EmptyStr, EmptyStr, EmptyStr, EmptyStr, <<>>) :
        p \in {EmptyStr, Str("2"), Str("0"), <<"-", "1">>, Str("a"), <<"9", "9", "9", "9">>},
        ps \in {EmptyStr, <<"5", "0", "0">>, Str("0"), <<"5", "0">>, <<"9", "9", "9", "9">>}}

ArchiveRequests ==
    {Request(EmptyStr, EmptyStr, EmptyStr, EmptyStr, EmptyStr, EmptyStr, pl, a, <<>>) :
        pl \in {EmptyStr, <<"Role", Comma, "Tenant">>},
        a \in {EmptyStr, Str("true"), Str("1"), Str("false")}}

Requests == SortRequests \cup SearchRequests \cup PageRequests \cup ArchiveRequests

-----------------------------------------------------------------------------
(* the state machine *)

NoReturn == [fn |-> "none"]

Init ==
    /\ configRegistry = [e \in {} |-> NilConfig]
    /\ q = NoBuilder
    /\ c = NoRequest
    /\ opts = ZeroQueryOptions
    /\ dbActive = NoDB
    /\ dbArchived = NoDB
    /\ dbCount = NoDB
    /\ ret = NoReturn

\* no statement has been built from the current registry, builder and options
NewSessions ==
    /\ dbActive' = NoDB
    /\ dbArchived' = NoDB
    /\ dbCount' = NoDB

RegisterConfig(entityType, config) ==
    /\ configRegistry' = [e \in DOMAIN configRegistry \cup {entityType} |->
                            IF e = entityType THEN config ELSE configRegistry[e]]
    /\ NewSessions
    /\ UNCHANGED <<q, c, opts, ret>>

NewQueryBuilder(entityType) ==
    /\ q' = NewBuilder(entityType)
    /\ NewSessions
    /\ UNCHANGED <<configRegistry, c, opts, ret>>

\* opts := DefaultQueryOptions()
UseDefaultQueryOptions ==
    /\ opts' = DefaultQueryOptions
    /\ c' = NoRequest
    /\ NewSessions
    /\ UNCHANGED <<configRegistry, q, ret>>

\* opts := QueryOptions{...}
UseQueryOptions(o) ==
    /\ opts' = o
    /\ c' = NoRequest
    /\ NewSessions
    /\ UNCHANGED <<configRegistry, q, ret>>

\* opts := ParseFromRequest(c)
ParseRequest(req) ==
    /\ c' = req
    /\ opts' = ParseFromRequest(req)
    /\ NewSessions
    /\ UNCHANGED <<configRegistry, q, ret>>

Build ==
    /\ q # NoBuilder
    /\ dbActive' = applyQuery(q, Session, opts, FALSE)
    /\ UNCHANGED <<configRegistry, q, c, opts, dbArchived, dbCount, ret>>

BuildArchived ==
    /\ q # NoBuilder
    /\ dbArchived' = applyQuery(q, Session, opts, TRUE)
    /\ UNCHANGED <<configRegistry, q, c, opts, dbActive, dbCount, ret>>

Count(archived) ==
    /\ q # NoBuilder
    /\ dbCount' = CountQuery(q, opts, archived)
    /\ UNCHANGED <<configRegistry, q, c, opts, dbActive, dbArchived, ret>>

Next ==
    \/ \E r \in Registrations : RegisterConfig(r[1], r[2])
    \/ \E e \in EntityTypes : NewQueryBuilder(e)
    \/ UseDefaultQueryOptions
    \/ \E o \in OptionLiterals : UseQueryOptions(o)
    \/ \E req \in Requests : ParseRequest(req)
    \/ Build
    \/ BuildArchived
    \/ \E archived \in BOOLEAN : Count(archived)

Spec == Init /\ [][Next]_vars

-----------------------------------------------------------------------------
(* the pagination helpers, called on their own *)

PageInts == {MinInt, -1, 0, 1, 2, 3, MaxInt}
SizeInts == {MinInt, -1, 0, 1, 20, 100, 101, 500, MaxInt}
Totals == {0, 1, 100, 105}
ResponseSizes == {-20, 0, 1, 7, 20, 100}

PaginationLiterals ==
    {[ZeroQueryOptions EXCEPT !.Page = p, !.PageSize = ps] : p \in PageInts, ps \in SizeInts}

CallPaginate(page, pageSize) ==
    /\ ret' = [fn |-> "Paginate", page |-> page, pageSize |-> pageSize,
               out |-> Paginate(page, pageSize)]
    /\ UNCHANGED <<configRegistry, q, c, opts, dbActive, dbArchived, dbCount>>

CallGetPageFromRequest(req) ==
    /\ ret' = [fn |-> "GetPageFromRequest", req |-> req, out |-> GetPageFromRequest(req)]
    /\ UNCHANGED <<configRegistry, q, c, opts, dbActive, dbArchived, dbCount>>

CallGetPageSizeFromRequest(req) ==
    /\ ret' = [fn |-> "GetPageSizeFromRequest", req |-> req,
               out |-> GetPageSizeFromRequest(req)]
    /\ UNCHANGED <<configRegistry, q, c, opts, dbActive, dbArchived, dbCount>>

CallPaginatedResponse(total, page, pageSize) ==
    /\ ret' = [fn |-> "PaginatedResponse", total |-> total, page |-> page,
               pageSize |-> pageSize, out |-> PaginatedResponse(total, page, pageSize)]
    /\ UNCHANGED <<configRegistry, q, c, opts, dbActive, dbArchived, dbCount>>

CallRespondWithPagination(total, page, pageSize) ==
    /\ ret' = [fn |-> "RespondWithPagination", total |-> total, page |-> page,
               pageSize |-> pageSize, out |-> RespondWithPagination(total, page, pageSize)]
    /\ UNCHANGED <<configRegistry, q, c, opts, dbActive, dbArchived, dbCount>>

NextPage ==
    \/ \E e \in EntityTypes : NewQueryBuilder(e)
    \/ \E o \in PaginationLiterals : UseQueryOptions(o)
    \/ Build
    \/ \E p \in PageInts, ps \in SizeInts : CallPaginate(p, ps)
    \/ \E req \in PageRequests : CallGetPageFromRequest(req)
    \/ \E req \in PageRequests : CallGetPageSizeFromRequest(req)
    \/ \E t \in Totals, ps \in ResponseSizes : CallPaginatedResponse(t, 1, ps)
    \/ \E t \in Totals, ps \in ResponseSizes : CallRespondWithPagination(t, 1, ps)

SpecPage == Init /\ [][NextPage]_vars

-----------------------------------------------------------------------------
(* reading a built statement *)

Built(db) == db # NoDB

OrderOf(db) ==
    LET o == Calls(db, "Order") IN IF o = <<>> THEN <<>> ELSE o[1].arg

SearchWheres(db) == SelectSeq(db, LAMBDA x : x.call = "Where" /\ x.form = "or")

SearchOf(db) ==
    LET w == SearchWheres(db) IN IF w = <<>> THEN <<>> ELSE w[1].query

HasCall(db, name) == \E i \in DOMAIN db : db[i].call = name

\* the whitelists registered for an entity type, empty when it has none
SortableOf(entityType) ==
    IF entityType \in DOMAIN configRegistry
    THEN Range(configRegistry[entityType].SortableColumns) ELSE {}

SearchableOf(entityType) ==
    IF entityType \in DOMAIN configRegistry
    THEN Range(configRegistry[entityType].SearchableColumns) ELSE {}

Registered(entityType) == entityType \in DOMAIN configRegistry

-----------------------------------------------------------------------------
(* properties *)

OnlyWhitelistedColumns(db) ==
    /\ \/ Len(opts.SortBy) = 0 /\ OrderOf(db) = FallbackOrder
       \/ \A i \in DOMAIN OrderOf(db) :
              OrderOf(db)[i].column \in SortableOf(q.entityType)
    /\ \A i \in DOMAIN SearchOf(db) :
           SearchOf(db)[i].column \in SearchableOf(q.entityType)

\* C1: every column in the ORDER BY clause of Build/BuildArchived is in the
\* entity's registered SortableColumns and every column in the search
\* condition is in its registered SearchableColumns, whatever the entity type
\* (the hard-coded "created_at desc" of an empty SortBy is not counted as a
\* requested column).
C1_OnlyWhitelistedColumns ==
    /\ Built(dbActive) => OnlyWhitelistedColumns(dbActive)
    /\ Built(dbArchived) => OnlyWhitelistedColumns(dbArchived)

\* C2: the query Count runs carries no OFFSET and no LIMIT clause.
C2_CountIgnoresPagination ==
    Built(dbCount) => ~HasCall(dbCount, "Offset") /\ ~HasCall(dbCount, "Limit")

\* C3: a parsed request that gives sortBy but no sortOrder sorts every
\* whitelisted column ascending: a whitelisted column of a parsed request is
\* sorted descending only if the request's sortOrder entry at that column's
\* position is "desc".
C3_SortOrderDefaultsToAsc ==
    (c # NoRequest /\ Built(dbActive) /\ Query(c, Str("sortBy")) # EmptyStr) =>
        LET sortBy == Split(Query(c, Str("sortBy")))
            given == Query(c, Str("sortOrder"))
            sortOrder == IF given = EmptyStr THEN <<>> ELSE Split(given)
            positions(col) == {i \in DOMAIN sortBy : sortBy[i] = col}
        IN \A k \in DOMAIN OrderOf(dbActive) :
              LET clause == OrderOf(dbActive)[k]
              IN (clause.column \in SortableOf(q.entityType) /\ clause.order = Str("desc")) =>
                    \E i \in positions(clause.column) :
                        i <= Len(sortOrder) /\ ToLower(sortOrder[i]) = Str("desc")

\* C4 as claimed: with an empty SortBy, Build orders by every column of the
\* entity's DefaultSort, ascending, and falls back to "created_at desc" only
\* when the entity has no registered configuration.
C4_DefaultSortAsClaimed ==
    (Built(dbActive) /\ Len(opts.SortBy) = 0) =>
        IF Registered(q.entityType)
        THEN LET defaultSort == configRegistry[q.entityType].DefaultSort
             IN OrderOf(dbActive) =
                    [i \in DOMAIN defaultSort |-> OrderClause(defaultSort[i], Str("asc"))]
        ELSE OrderOf(dbActive) = FallbackOrder

\* C4 amended: with an empty SortBy, Build falls back to "created_at desc"
\* when the builder holds no configuration or one whose DefaultSort is empty;
\* otherwise it orders, ascending and in DefaultSort order, by those columns of
\* the builder's DefaultSort that pass the sort whitelist check (all of them
\* for the empty entity type), with no ORDER BY when none passes.
C4_DefaultSort ==
    (Built(dbActive) /\ Len(opts.SortBy) = 0) =>
        IF q.config = NilConfig \/ q.config.DefaultSort = <<>>
        THEN OrderOf(dbActive) = FallbackOrder
        ELSE LET passing == SelectSeq(q.config.DefaultSort,
                                LAMBDA col : q.entityType = EmptyStr
                                             \/ col \in SortableOf(q.entityType))
             IN /\ OrderOf(dbActive) =
                      [i \in DOMAIN passing |-> OrderClause(passing[i], Str("asc"))]
                /\ HasCall(dbActive, "Order") <=> passing # <<>>

\* C4 witness: a DefaultSort with a column that passes the whitelist and one
\* that does not has been applied to an empty SortBy.
C4_Witness ==
    /\ Built(dbActive)
    /\ Len(opts.SortBy) = 0
    /\ q.config # NilConfig
    /\ Len(q.config.DefaultSort) = 2
    /\ Len(OrderOf(dbActive)) = 1
    /\ OrderOf(dbActive)[1].order = Str("asc")

\* the columns of sortBy that are in the entity's whitelist, each paired with
\* the direction at its own position
RECURSIVE ExpectedOrder(_, _, _, _)
ExpectedOrder(entityType, sortBy, sortOrder, i) ==
    IF i > Len(sortBy) THEN <<>>
    ELSE LET desc == i \in DOMAIN sortOrder /\ ToLower(sortOrder[i]) = Str("desc")
             here == IF sortBy[i] \in SortableOf(entityType)
                     THEN <<OrderClause(sortBy[i], IF desc THEN Str("desc") ELSE Str("asc"))>>
                     ELSE <<>>
         IN here \o ExpectedOrder(entityType, sortBy, sortOrder, i + 1)

\* C5: with a non-empty SortBy the ORDER BY clause lists exactly the
\* whitelisted columns of SortBy, in request order, each with the direction at
\* its own position; there is no ORDER BY when none is whitelisted.
C5_ExplicitSort ==
    (Built(dbActive) /\ Len(opts.SortBy) > 0) =>
        LET expected == ExpectedOrder(q.entityType, opts.SortBy, opts.SortOrder, 1)
        IN /\ OrderOf(dbActive) = expected
           /\ HasCall(dbActive, "Order") <=> expected # <<>>

\* C6: with a non-empty Search the candidates are SearchColumns if given, else
\* the entity's SearchableColumns; the whitelisted candidates form one OR-group
\* of ILIKE conditions on "%Search%"; there is no search condition when none
\* survives or Search is empty.
C6_Search ==
    Built(dbActive) =>
        LET candidates == IF Len(opts.SearchColumns) > 0 THEN opts.SearchColumns
                          ELSE IF Registered(q.entityType)
                               THEN configRegistry[q.entityType].SearchableColumns
                               ELSE <<>>
            surviving == SelectSeq(candidates, LAMBDA col : col \in SearchableOf(q.entityType))
            wheres == SearchWheres(dbActive)
        IN IF opts.Search = EmptyStr \/ surviving = <<>>
           THEN wheres = <<>>
           ELSE /\ Len(wheres) = 1
                /\ wheres[1].query = [i \in DOMAIN surviving |-> ILikeCondition(surviving[i])]
                /\ wheres[1].args =
                      [i \in DOMAIN surviving |-> <<"%">> \o opts.Search \o <<"%">>]

\* the row meets the filter and search conditions of the statement
MatchesFiltersAndSearch(db, row) ==
    \A i \in DOMAIN db :
        (db[i].call = "Where" /\ db[i].form # "raw") => Satisfies(row, db[i])

NormalPage(page) == IF page < 1 THEN 1 ELSE page

NormalPageSize(pageSize) ==
    IF pageSize < 1 THEN 20 ELSE IF pageSize > 100 THEN 100 ELSE pageSize

\* C8: page normalises to 1 below 1, pageSize to 20 below 1 and to 100 above
\* 100; the applied offset is (page-1)*pageSize of the normalised values and
\* the limit the normalised pageSize; Paginate and the two request getters
\* yield the same normalised values.
C8_Pagination ==
    /\ Built(dbActive) =>
          /\ Calls(dbActive, "Offset")[1].arg =
                (NormalPage(opts.Page) - 1) * NormalPageSize(opts.PageSize)
          /\ Calls(dbActive, "Limit")[1].arg = NormalPageSize(opts.PageSize)
    /\ ret.fn = "Paginate" =>
          ret.out = <<NormalPage(ret.page), NormalPageSize(ret.pageSize)>>
    /\ ret.fn = "GetPageFromRequest" =>
          LET page == Atoi(Query(ret.req, Str("page")))
          IN ret.out = IF page.err THEN 1 ELSE NormalPage(page.value)
    /\ ret.fn = "GetPageSizeFromRequest" =>
          LET pageSize == Atoi(Query(ret.req, Str("pageSize")))
          IN ret.out = IF pageSize.err THEN 20 ELSE NormalPageSize(pageSize.value)

\* C9: PaginatedResponse and RespondWithPagination never panic, and for a
\* positive page_size their total_pages is the ceiling of total/page_size.
C9_ResponseNeverPanics ==
    ret.fn \in {"PaginatedResponse", "RespondWithPagination"} =>
        /\ ~ret.out.panic
        /\ ret.pageSize > 0 =>
              /\ ret.out.total_pages * ret.pageSize >= ret.total
              /\ ((ret.out.total_pages - 1) * ret.pageSize < ret.total \/ ret.total = 0)

\* C10: Build behaves as a builder created now would: defaults and whitelist
\* both come from the configuration currently registered for the entity type.
C10_OneConfiguration ==
    Built(dbActive) =>
        LET now == applyQuery(NewBuilder(q.entityType), Session, opts, FALSE)
        IN /\ OrderOf(dbActive) = OrderOf(now)
           /\ SearchOf(dbActive) = SearchOf(now)

====
